---- MODULE Spec2Model ----
(***************************************************************************)
(* A model of the minim research layer:                                    *)
(*   - UnboundedAsyncLimiter (src/minim/ratelimiter.py) running on an      *)
(*     asyncio event loop, with several client tasks calling acquire;      *)
(*   - MinimAskNewsSearcher.get_formatted_news_async and the report cache  *)
(*     (src/minim/researcher.py), one research run after another;          *)
(*   - the query planner's parser, produce_queries (researcher.py);        *)
(*   - Minim._run_forecast_with_checking (src/minim/minim.py).             *)
(* The parts have their own variables and their own specifications         *)
(* (LimiterSpec / LimiterFairSpec, Spec for the research pipeline,         *)
(* PlannerSpec, ForecastSpec / ForecastFairSpec).                          *)
(***************************************************************************)
EXTENDS Integers, Sequences, FiniteSets, TLC

(***************************************************************************)
(* Bounds of the model.                                                    *)
(***************************************************************************)
\* number of client tasks, each calling acquire once
NTasks == 4
\* amounts requested are 1..MaxAmount
MaxAmount == 2
\* the limiter's capacity (AsyncLimiter.max_rate, a constructor argument)
max_rate == 1
\* at most this many of the tasks are cancelled while they wait
MaxCancels == 1

\* research runs made one after another for the question
MaxRuns == 2
\* the query planner returns at most this many recent queries
MaxRecent == 2
\* lines of a model output given to the planner's parser
MaxLines == 4
\* characters of a logic checker's answer
MaxChars == 3
\* ticks of the wall clock per day: a tick is an hour
UnitsPerDay == 24

Tasks == 1..NTasks
Amounts == 1..MaxAmount

Max(a, b) == IF a >= b THEN a ELSE b
Min(a, b) == IF a <= b THEN a ELSE b

\* the largest level the bucket can hold
MaxLevel == Max(max_rate, MaxAmount)

(***************************************************************************)
(* State of the rate limiter and of the event loop.                        *)
(* Time is counted in ticks of 1/_rate_per_sec seconds: one unit of        *)
(* capacity leaks per tick.                                                *)
(***************************************************************************)
VARIABLES
    level,       \* AsyncLimiter._level
    elapsed,     \* loop.time() - AsyncLimiter._last_check, in ticks
    waiters,     \* AsyncLimiter._waiters: entries (amount, count, task of fut), in heap pop order
    next_count,  \* the value the next call of AsyncLimiter._next_count returns
    waker,       \* AsyncLimiter._waker_handle: none / scheduled in `remaining` ticks / in the ready queue
    ready,       \* the loop's FIFO queue of ready handles
    pc,          \* per task: "idle", "waiting" (suspended in `await fut`), "done", "cancelled"
    amt,         \* per task: the amount of its acquire call (0 outside the call)
    fut,         \* per task: its current future: "none", "pending", "result", "cancelled"
    sinceEval,   \* history: ticks since the last evaluation of _leak
    returned     \* history: the call of acquire that returned last, and its amount

limVars == <<level, elapsed, waiters, next_count, waker, ready, pc, amt, fut,
             sinceEval, returned>>

VARIABLES
    cfg,         \* MinimAskNewsSearcher's settings: report_dir is set, check_query, check_relevance
    disk,        \* the file <report_dir>/<question id>_asknews_search.json; its record's
                 \* timestamp is kept as the age time.time() - timestamp, in ticks of
                 \* 1/UnitsPerDay day
    runs,        \* research runs started so far
    run          \* the current call of get_formatted_news_async: its position, locals and history

resVars == <<cfg, disk, runs, run>>

VARIABLES
    response,    \* produce_queries: the model's output, as the lines response.split("\n") gives
    planned      \* what produce_queries returned for it (NoPlan before the call)

planVars == <<response, planned>>

VARIABLES
    fc           \* the call of Minim._run_forecast_with_checking: its position, locals and history

fcVars == <<fc>>

vars == <<limVars, resVars, planVars, fcVars>>

\* F applied to the value of v, computed once
Bind(v, F(_)) == CHOOSE r \in {F(x) : x \in {v}} : TRUE

NoWaker == [state |-> "none", remaining |-> 0]
Handle(k, t) == [kind |-> k, task |-> t]

\* the limiter and loop state as one record, for the operators below
Lim == [level |-> level, elapsed |-> elapsed, waiters |-> waiters,
        next_count |-> next_count, waker |-> waker, ready |-> ready,
        pc |-> pc, amt |-> amt, fut |-> fut, sinceEval |-> sinceEval,
        returned |-> returned]

(***************************************************************************)
(* AsyncLimiter._leak (aiolimiter): lower the level by the capacity that   *)
(* leaked since the last check, floored at 0; stamp the check.             *)
(***************************************************************************)
_leak(before) ==
    Bind(before, LAMBDA s :
        [s EXCEPT !.level = IF s.level # 0 THEN Max(s.level - s.elapsed, 0) ELSE 0,
                  !.elapsed = 0,
                  !.sinceEval = 0])

\* has_capacity's test on the level _leak left (ratelimiter.py line 55)
has_capacity_mut_no_empty(lvl, amount) == lvl + amount <= max_rate
has_capacity_mut_always(lvl, amount) == TRUE
has_capacity_mut_not_over(lvl, amount) == lvl = 0 \/ lvl <= max_rate
has_capacity(lvl, amount) == lvl = 0 \/ lvl + amount <= max_rate

\* heapq order of two entries (amount, count, fut): the futures are never
\* compared, the counts differ
EntryLess(a, b) ==
    a.amount < b.amount \/ (a.amount = b.amount /\ a.count < b.count)

\* heappush, on the heap kept as the sequence of its entries in pop order
heappush_mut_fifo(heap, e) == Append(heap, e)
heappush(heap, e) ==
    LET before == SelectSeq(heap, LAMBDA x : EntryLess(x, e))
        after == SelectSeq(heap, LAMBDA x : ~EntryLess(x, e))
    IN before \o <<e>> \o after

heappop(heap) == Tail(heap)

\* lines 63-64: drop the done futures at the top of the heap
RECURSIVE DropDone(_, _)
DropDone(heap, f) ==
    IF heap # <<>> /\ f[heap[1].task] # "pending"
    THEN DropDone(heappop(heap), f)
    ELSE heap

\* set_result on a future without the done callback of line 37
set_result_mut_no_callback(s, t) ==
    [s EXCEPT !.fut[t] = "result",
              !.ready = Append(s.ready, Handle("wakeup", t))]
\* fut.set_result(None): the future's done callbacks are scheduled with
\* call_soon in the order they were added: partial(loop.call_soon, _wake_next)
\* (line 37), then the wakeup of the task awaiting it (line 40)
set_result(s, t) ==
    [s EXCEPT !.fut[t] = "result",
              !.ready = s.ready \o <<Handle("call_soon_wake_next", 0), Handle("wakeup", t)>>]

\* handle.cancel(): a cancelled handle that is already in the ready queue is skipped
CancelTimer(s) ==
    [s EXCEPT !.waker = NoWaker,
              !.ready = SelectSeq(s.ready, LAMBDA h : h.kind # "timer")]

\* the timer is cancelled, the done futures are left at the top of the heap
ClearTop_mut_keep(s) == CancelTimer(s)
\* lines 60-64 of _wake_next: the timer is cancelled, the done futures dropped
ClearTop(s) == [CancelTimer(s) EXCEPT !.waiters = DropDone(s.waiters, s.fut)]

\* _wake_next with the level computed in place and _last_check left alone
_wake_next_mut_stale(s) ==
    Bind(ClearTop(s), LAMBDA s2 :
        IF s2.waiters = <<>> THEN s2
        ELSE Bind([s2 EXCEPT !.level = Max(s2.level - s2.elapsed, 0), !.sinceEval = 0],
                  LAMBDA s3 :
            LET head == s3.waiters[1]
                needed == Min(head.amount - max_rate + s3.level, s3.level)
            IN IF needed <= 0
               THEN set_result([s3 EXCEPT !.waiters = heappop(s3.waiters)], head.task)
               ELSE [s3 EXCEPT !.waker = [state |-> "scheduled",
                                          remaining |-> Max(needed - s3.elapsed, 0)]]))

\* _wake_next that forgets to schedule the timer
_wake_next_mut_no_timer(s) ==
    Bind(ClearTop(s), LAMBDA s2 :
        IF s2.waiters = <<>> THEN s2
        ELSE Bind(_leak(s2), LAMBDA s3 :
            LET head == s3.waiters[1]
                needed == Min(head.amount - max_rate + s3.level, s3.level)
            IN IF needed <= 0
               THEN set_result([s3 EXCEPT !.waiters = heappop(s3.waiters)], head.task)
               ELSE s3))

\* UnboundedAsyncLimiter._wake_next
_wake_next(s) ==
    Bind(ClearTop(s), LAMBDA s2 :                                        \* 60-64
        IF s2.waiters = <<>> THEN s2                                     \* 66-68
        ELSE Bind(_leak(s2), LAMBDA s3 :                                 \* 71
            LET head == s3.waiters[1]                                    \* 70
                needed == Min(head.amount - max_rate + s3.level, s3.level)   \* 72
            IN IF needed <= 0
               THEN set_result([s3 EXCEPT !.waiters = heappop(s3.waiters)], head.task)  \* 74-77
               \* 79-80: call_at(_last_check + needed / _rate_per_sec)
               ELSE [s3 EXCEPT !.waker = [state |-> "scheduled",
                                          remaining |-> Max(needed - s3.elapsed, 0)]]))

\* UnboundedAsyncLimiter.acquire from the test of its while loop (line 32) to
\* the next suspension (line 40) or to the return (line 46), for task t
acquire(s, t, amount) ==
    Bind(_leak(s), LAMBDA s1 :                                           \* 54
        IF has_capacity(s1.level, amount)
        THEN _wake_next([s1 EXCEPT !.level = s1.level + amount,          \* 42-44
                                   !.pc[t] = "done",
                                   !.fut[t] = "none",
                                   !.amt[t] = 0,
                                   !.returned = [task |-> t, amount |-> amount]])
        ELSE _wake_next([s1 EXCEPT                                       \* 36-40
                 !.fut[t] = "pending",
                 !.waiters = heappush(s1.waiters,
                               [amount |-> amount, count |-> s1.next_count, task |-> t]),
                 !.next_count = s1.next_count + 1,
                 !.pc[t] = "waiting"]))

\* the variables take the fields of s
Becomes(after) ==
    \E s \in {after} :
        /\ level' = s.level
        /\ elapsed' = s.elapsed
        /\ waiters' = s.waiters
        /\ next_count' = s.next_count
        /\ waker' = s.waker
        /\ ready' = s.ready
        /\ pc' = s.pc
        /\ amt' = s.amt
        /\ fut' = s.fut
        /\ sinceEval' = s.sinceEval
        /\ returned' = s.returned
        /\ UNCHANGED resVars
        /\ UNCHANGED planVars
        /\ UNCHANGED fcVars

LimInit ==
    /\ level = 0
    /\ elapsed = 0
    /\ waiters = <<>>
    /\ next_count = 0
    /\ waker = NoWaker
    /\ ready = <<>>
    /\ pc = [t \in Tasks |-> "idle"]
    /\ amt = [t \in Tasks |-> 0]
    /\ fut = [t \in Tasks |-> "none"]
    /\ sinceEval = 0
    /\ returned = [task |-> 0, amount |-> 0]

\* a task calls acquire(amount): it runs to the first suspension or the return.
\* The tasks are interchangeable: they are numbered in the order of their calls.
Call(t, amount) ==
    /\ pc[t] = "idle"
    /\ \A u \in Tasks : u < t => pc[u] # "idle"
    /\ Becomes(acquire([Lim EXCEPT !.amt[t] = amount], t, amount))

\* the loop runs the handle at the head of the ready queue
RunCallSoon ==
    /\ ready # <<>>
    /\ Head(ready).kind = "call_soon_wake_next"
    /\ Becomes([Lim EXCEPT !.ready = Append(Tail(ready), Handle("wake_next", 0))])

RunWakeNext ==
    /\ ready # <<>>
    /\ Head(ready).kind \in {"wake_next", "timer"}
    /\ Becomes(_wake_next([Lim EXCEPT !.ready = Tail(ready)]))

\* the task resumes from `await fut` (line 40): with the result it tests the
\* loop condition again, with a cancellation CancelledError leaves acquire
RunWakeup ==
    /\ ready # <<>>
    /\ Head(ready).kind = "wakeup"
    /\ LET t == Head(ready).task
           s == [Lim EXCEPT !.ready = Tail(ready)]
       IN IF fut[t] = "cancelled"
          THEN Becomes([s EXCEPT !.pc[t] = "cancelled", !.amt[t] = 0])
          ELSE Becomes(acquire(s, t, amt[t]))

\* the timer set with call_at is due: the loop puts its handle in the ready queue
TimerFire ==
    /\ waker.state = "scheduled"
    /\ waker.remaining = 0
    /\ waker' = [state |-> "ready", remaining |-> 0]
    /\ ready' = Append(ready, Handle("timer", 0))
    /\ UNCHANGED <<level, elapsed, waiters, next_count, pc, amt, fut, sinceEval, returned>>
    /\ UNCHANGED resVars
    /\ UNCHANGED planVars
    /\ UNCHANGED fcVars

\* one tick of the loop's clock passes; elapsed time is counted up to the
\* level (a longer wait leaks nothing more)
Tick ==
    /\ elapsed' = Min(elapsed + 1, level)
    /\ sinceEval' = Min(sinceEval + 1, level)
    /\ waker' = IF waker.state = "scheduled"
                THEN [waker EXCEPT !.remaining = Max(waker.remaining - 1, 0)]
                ELSE waker
    /\ UNCHANGED <<level, waiters, next_count, ready, pc, amt, fut, returned>>
    /\ UNCHANGED resVars
    /\ UNCHANGED planVars
    /\ UNCHANGED fcVars

\* the task waiting in acquire is cancelled: its future is cancelled (or, when
\* the result is already set, CancelledError is thrown at the wakeup)
Cancel(t) ==
    /\ pc[t] = "waiting"
    /\ Cardinality({u \in Tasks : pc[u] = "cancelled" \/ fut[u] = "cancelled"}) < MaxCancels
    /\ fut[t] \in {"pending", "result"}
    /\ fut' = [fut EXCEPT ![t] = "cancelled"]
    /\ ready' = IF fut[t] = "pending"
                THEN ready \o <<Handle("call_soon_wake_next", 0), Handle("wakeup", t)>>
                ELSE ready
    /\ UNCHANGED <<level, elapsed, waiters, next_count, waker, pc, amt, sinceEval, returned>>
    /\ UNCHANGED resVars
    /\ UNCHANGED planVars
    /\ UNCHANGED fcVars

LimNext ==
    \/ \E t \in Tasks, a \in Amounts : Call(t, a)
    \/ RunCallSoon
    \/ RunWakeNext
    \/ RunWakeup
    \/ TimerFire
    \/ Tick
    \/ \E t \in Tasks : Cancel(t)


(***************************************************************************)
(* The research pipeline: MinimResearcher.run_research calls               *)
(* MinimAskNewsSearcher.get_formatted_news_async(query) with the query     *)
(* "v0.1" (researcher.py line 83, through call_preconfigured_version).     *)
(***************************************************************************)
asknewsquery == "v0.1"
question_text == "Will X happen?"
freshness_threshold_days == 7

\* ages are counted up to one day past the threshold (older records are alike)
MaxAge == (freshness_threshold_days + 1) * UnitsPerDay
\* the wall-clock time between two runs, in ticks: none, one tick, one tick
\* short of the threshold, the threshold (the clock reads of one run return
\* the same value: a run is short against the threshold)
Gaps == {0, 1, freshness_threshold_days * UnitsPerDay - 1,
         freshness_threshold_days * UnitsPerDay}
\* datetime.fromtimestamp gives the naive local time: the host's UTC offset at
\* the instant is added and then forgotten. Shifts is what the offset at the
\* time of the check minus the offset at the record's timestamp can be, in
\* ticks: a daylight-saving change between the two, either way, or none.
Shifts == {-1, 0, 1}

\* recent queries the planner writes: "r1", "r2", ...
RecentQuery(j) == "r" \o ToString(j)
Plans ==
    {[historical_query |-> question_text, hot_queries |-> <<>>]} \cup
    {[historical_query |-> "h", hot_queries |-> [j \in 1..n |-> RecentQuery(j)]] :
        n \in 0..MaxRecent}

\* a response's as_dicts: None (absent), the empty list, or a list of one
\* article; the article of the c-th search call of a run is numbered 10 + c
Resp(absent, items) == [absent |-> absent, items |-> items]
Responses(c) ==
    {Resp(TRUE, <<>>), Resp(FALSE, <<>>), Resp(FALSE, <<10 + c>>)}
\* Python's truth value of a response
Truthy(resp) == ~resp.absent /\ resp.items # <<>>

NoRecord == [kind |-> "missing", age |-> 0, query |-> "", report |-> <<>>]
Record(age, q, rep) == [kind |-> "record", age |-> age, query |-> q, report |-> rep]
\* the file as it is read gap ticks later
Aged(d, gap) ==
    IF d.kind = "record" THEN [d EXCEPT !.age = Min(d.age + gap, MaxAge)] ELSE d
\* a file that is not JSON, and a JSON file that is not a TimestampedAskNewsSearch
NotJson == [NoRecord EXCEPT !.kind = "notjson"]
BadSchema == [NoRecord EXCEPT !.kind = "badschema"]

Event(op, q, n) == [op |-> op, q |-> q, n |-> n]

IdleRun ==
    [pc |-> "idle",
     query |-> "",                   \* the parameter query, rebound by the loop of line 289
     historical_query |-> "",
     hot_queries |-> <<>>,
     k |-> 0,                        \* position of the loop of line 289 in hot_queries
     hot_articles |-> Resp(FALSE, <<>>),
     historical_articles |-> <<>>,
     hist_hot_response |-> Resp(FALSE, <<>>),
     report |-> <<>>,
     relevant_articles |-> <<>>,
     i |-> 0,                        \* position of the loop of line 308 in report
     output |-> <<>>,
     \* history of the run
     log |-> <<>>,                   \* the calls made, in order
     startDisk |-> NoRecord,         \* the file when the run started
     hit |-> FALSE,                  \* the run took the else branch of line 300
     afterWrite |-> FALSE,           \* the run before this one returned after writing the file
     old |-> FALSE,                  \* the value of old at line 365
     paths |-> <<>>,                 \* how the run's calls of _get_file_path went, in order
     at |-> "",                      \* where an exception left the method
     got |-> [latest |-> <<>>, recent |-> <<>>, hist |-> <<>>]]  \* articles received

\* timedelta.days: whole days, rounded down
Days(delta) == delta \div UnitsPerDay

\* lines 363-365: current_time - report_time is a difference of naive local
\* times, the age plus the change of the local UTC offset
Old(last_report, shift) ==
    Days(last_report.age + shift) >= freshness_threshold_days

\* _check_report_stale with the age test turned round
_check_report_stale_mut_le(query, last_report, shift) ==
    Days(last_report.age + shift) <= freshness_threshold_days
        \/ query # last_report.query
\* _check_report_stale
_check_report_stale(query, last_report, shift) ==
    LET old == Old(last_report, shift)
        obsolete == query # last_report.query
    IN old \/ obsolete

\* _get_file_path: the assertion of line 354 holds, or raises AssertionError
_get_file_path(c) == IF c.report_dir THEN "ok" ELSE "assert"

\* what a call of _check_for_report gives: raised, or found with the record,
\* or None; path tells how its call of _get_file_path went ("none": not called)
Loaded(raised, found, rec, path) ==
    [raised |-> raised, found |-> found, rec |-> rec, path |-> path]
\* the file read through the path
ReadFile(d, path) ==
    IF path = "assert" THEN Loaded(TRUE, FALSE, NoRecord, path)
    ELSE CASE d.kind = "record" -> Loaded(FALSE, TRUE, d, path)
           [] d.kind = "badschema" -> Loaded(FALSE, FALSE, NoRecord, path)
           [] d.kind = "notjson" -> Loaded(TRUE, FALSE, NoRecord, path)   \* json.load raises
           [] OTHER -> Loaded(FALSE, FALSE, NoRecord, path)
\* _check_for_report without the test of line 322
_check_for_report_mut_no_guard(c, d) == ReadFile(d, _get_file_path(c))
\* _check_for_report
_check_for_report(c, d) ==
    IF c.report_dir
    THEN ReadFile(d, _get_file_path(c))
    ELSE Loaded(FALSE, FALSE, NoRecord, "none")

\* _write_report without the test of report_dir
_write_report_mut_no_dir(c, d, query, report) ==
    IF report # <<>>
    THEN Record(0, query, report)
    ELSE d
\* _write_report adding the articles to those of the record in the file
_write_report_mut_merge(c, d, query, report) ==
    IF c.report_dir /\ report # <<>>
    THEN Record(0, query, (IF d.kind = "record" THEN d.report ELSE <<>>) \o report)
    ELSE d
\* _write_report writing whatever the list holds
_write_report_mut_always(c, d, query, report) ==
    IF c.report_dir
    THEN Record(0, query, report)
    ELSE d
\* _write_report left at lines 348-351: open(path, "w") of line 347 has emptied
\* the file, and what has reached it, if anything, is not a JSON document
_write_report_interrupted(c, d, query, report) ==
    IF c.report_dir /\ report # <<>>
    THEN NotJson
    ELSE d

\* _write_report: the file after the call (timestamp = time.time(): age 0)
_write_report(c, d, query, report) ==
    IF c.report_dir /\ report # <<>>
    THEN Record(0, query, report)
    ELSE d

\* AskNewsSearcher._format_articles, a function of the kept articles
_format_articles(articles) == <<"formatted", articles>>

\* a run and the file, as the operators below pass them on
World(r, d) == [r |-> r, d |-> d, saves |-> TRUE]
\* the same, when a write of the file that the step makes does not complete
\* (building or serialising the record raises, or writing the bytes does)
Interrupted(w) == [w EXCEPT !.saves = FALSE]

Logged(r, e) == [r EXCEPT !.log = Append(r.log, e)]

\* an exception (or CancelledError) propagates out of the method at an await
\* or a statement: its locals are gone, the history stays
Unwound(r, how) ==
    [IdleRun EXCEPT !.pc = how, !.at = r.pc, !.log = r.log, !.startDisk = r.startDisk,
                    !.hit = r.hit, !.afterWrite = r.afterWrite, !.old = r.old, !.paths = r.paths,
                    !.got = r.got]

\* lines 306-319 with the loop of line 308 taking up the last article only
EnterFilter_mut_last(w) ==
    LET r == w.r
    IN IF cfg.check_relevance
       THEN IF r.report # <<>>
            THEN World([r EXCEPT !.pc = "filter", !.i = Len(r.report),
                                 !.relevant_articles = <<>>], w.d)
            ELSE World([r EXCEPT !.pc = "done", !.relevant_articles = <<>>,
                                 !.output = _format_articles(<<>>)], w.d)
       ELSE World([r EXCEPT !.pc = "done", !.relevant_articles = r.report,
                            !.output = _format_articles(r.report)], w.d)
\* lines 306-319 up to the first judgment awaited, or to the return
EnterFilter(w) ==
    LET r == w.r
    IN IF cfg.check_relevance
       THEN IF r.report # <<>>
            THEN World([r EXCEPT !.pc = "filter", !.i = 1, !.relevant_articles = <<>>], w.d)
            ELSE World([r EXCEPT !.pc = "done", !.relevant_articles = <<>>,
                                 !.output = _format_articles(<<>>)], w.d)
       ELSE World([r EXCEPT !.pc = "done", !.relevant_articles = r.report,
                            !.output = _format_articles(r.report)], w.d)

\* lines 298-299 without the call of line 299, then the filter
FinishFetch_mut_no_write(w) ==
    LET r == w.r
    IN IF r.hot_articles.absent
       THEN World(Unwound([r EXCEPT !.pc = "report"], "failed"), w.d)
       ELSE EnterFilter(World([r EXCEPT !.report = r.hot_articles.items \o r.historical_articles],
                              w.d))
\* lines 298-299, then the filter
FinishFetch(w) ==
    LET r == w.r
    IN IF r.hot_articles.absent
       THEN World(Unwound([r EXCEPT !.pc = "report"], "failed"), w.d)  \* None + list: TypeError
       ELSE LET report == r.hot_articles.items \o r.historical_articles
                d2 == _write_report(cfg, w.d, r.query, report)
                \* line 345, reached when the test of line 344 holds
                rp == IF cfg.report_dir /\ report # <<>>
                      THEN [r EXCEPT !.paths = Append(r.paths, _get_file_path(cfg))]
                      ELSE r
                r2 == [rp EXCEPT !.report = report]
            IN IF ~w.saves /\ cfg.report_dir /\ report # <<>>
               THEN World(Unwound([rp EXCEPT !.pc = "write"], "failed"),
                          _write_report_interrupted(cfg, w.d, r.query, report))
               ELSE
               EnterFilter(World(IF cfg.report_dir /\ report # <<>>   \* line 344: the file is written
                                 THEN Logged(r2, Event("write", r.query, Len(report)))
                                 ELSE r2, d2))

\* the loop of lines 289-297 writing the file at each turn
NextRecent_mut_write(w) ==
    LET r == w.r
    IN IF r.k < Len(r.hot_queries)
       THEN World([r EXCEPT !.k = r.k + 1, !.query = r.hot_queries[r.k + 1],
                            !.pc = "acquire_recent"],
                  _write_report(cfg, w.d, r.query,
                                r.hot_articles.items \o r.historical_articles))
       ELSE FinishFetch(w)
\* the loop of lines 289-297 from its head: the next recent query, or the end
NextRecent(w) ==
    LET r == w.r
    IN IF r.k < Len(r.hot_queries)
       THEN World([r EXCEPT !.k = r.k + 1, !.query = r.hot_queries[r.k + 1],
                            !.pc = "acquire_recent"], w.d)
       ELSE FinishFetch(w)

ResBecomes(w) ==
    /\ run' = w.r
    /\ disk' = w.d
    /\ UNCHANGED cfg
    /\ UNCHANGED limVars
    /\ UNCHANGED planVars
    /\ UNCHANGED fcVars

Awaiting == {"check_query", "produce_queries", "acquire_latest", "search_latest",
             "acquire_knowledge", "search_knowledge", "acquire_recent", "search_recent",
             "filter"}

\* MinimResearcher.__init__: the settings that can be passed, the values of
\* those left out (report_dir None, check_query False, check_relevance True)
ArgNames == {"report_dir", "check_query", "check_relevance"}
Defaults_mut_check_on ==
    [report_dir |-> FALSE, check_query |-> TRUE, check_relevance |-> TRUE]
Defaults ==
    [report_dir |-> FALSE, check_query |-> FALSE, check_relevance |-> TRUE]
\* the settings a caller passes explicitly: any of them, with any value
Givens == UNION {[A -> BOOLEAN] : A \in SUBSET ArgNames}
\* the researcher's settings after construction, handed on to the searcher
\* by run_research (lines 84-92)
Constructed(given) ==
    [a \in ArgNames |-> IF a \in DOMAIN given THEN given[a] ELSE Defaults[a]]

\* The file is missing, unreadable, or a record written now or more than
\* freshness_threshold_days ago, under the query run_research passes or under
\* the question text.
ResInit ==
    /\ cfg \in {Constructed(given) : given \in Givens}
    /\ disk \in IF cfg.report_dir
                THEN {NoRecord, NotJson, BadSchema} \cup
                     {Record(age, q, <<1, 2>>) : age \in {0, MaxAge},
                                               q \in {asknewsquery, question_text}}
                ELSE {NoRecord}
    /\ runs = 0
    /\ run = IdleRun

\* get_formatted_news_async is called: lines 253-255, to the first await
StartRun(gap, shift) ==
    /\ run.pc \in {"idle", "done", "failed", "cancelled"}
    /\ runs < MaxRuns
    \* the offsets of two instants differ only when a record is read and it
    \* was written at an earlier tick
    /\ shift # 0 => (cfg.report_dir /\ disk.kind = "record" /\ Aged(disk, gap).age > 0)
    \* and time matters only to a record
    /\ gap # 0 => disk.kind = "record"
    /\ runs' = runs + 1
    /\ LET d0 == Aged(disk, gap)
           wrote == run.pc = "done" /\ \E k \in 1..Len(run.log) : run.log[k].op = "write"
           loaded == _check_for_report(cfg, d0)
           r0 == [IdleRun EXCEPT !.query = asknewsquery, !.startDisk = d0,
                                 !.afterWrite = wrote,
                                 !.paths = IF loaded.path = "none" THEN <<>>
                                           ELSE <<loaded.path>>]
       IN IF loaded.raised
          THEN ResBecomes(World(Unwound([r0 EXCEPT !.pc = IF loaded.path = "assert"
                                                         THEN "path" ELSE "load"],
                                        "failed"), d0))
          ELSE IF ~loaded.found
                  \/ _check_report_stale(r0.query, loaded.rec, shift)
          THEN LET r1 == [r0 EXCEPT !.historical_query = question_text,
                                    !.hot_queries = <<>>,
                                    !.old = loaded.found /\ Old(loaded.rec, shift)]
               IN ResBecomes(World([r1 EXCEPT !.pc = IF cfg.check_query THEN "check_query"
                                                     ELSE "acquire_latest"], d0))
          ELSE ResBecomes(EnterFilter(World([r0 EXCEPT !.hit = TRUE,
                                                       !.old = Old(loaded.rec, shift),
                                                       !.report = loaded.rec.report], d0)))

\* line 266 with the planner called whatever do_check_query returns
CheckQueryReturn_mut_plan(acceptable) ==
    /\ run.pc = "check_query"
    /\ LET r == Logged(run, Event("do_check_query", IF acceptable THEN "true" ELSE "false", 0))
       IN ResBecomes(World([r EXCEPT !.pc = "produce_queries"], disk))
    /\ UNCHANGED runs
\* do_check_query returns (line 266)
CheckQueryReturn(acceptable) ==
    /\ run.pc = "check_query"
    /\ LET r == Logged(run, Event("do_check_query", IF acceptable THEN "true" ELSE "false", 0))
       IN ResBecomes(World([r EXCEPT !.pc = IF acceptable THEN "acquire_latest"
                                             ELSE "produce_queries"], disk))
    /\ UNCHANGED runs

\* produce_queries returns (line 270)
ProduceQueriesReturn(plan) ==
    /\ run.pc = "produce_queries"
    /\ LET r == Logged(run, Event("produce_queries", "", 0))
       IN ResBecomes(World([r EXCEPT !.historical_query = plan.historical_query,
                                     !.hot_queries = plan.hot_queries,
                                     !.pc = "acquire_latest"], disk))
    /\ UNCHANGED runs

\* every acquisition taking one unit
AcquireAmount_mut_one(at) == IF at = "acquire_knowledge" THEN 1 ELSE 1
\* the amounts of the acquire calls of lines 272, 280 and 290
AcquireAmount(at) == IF at = "acquire_knowledge" THEN 5 ELSE 1

\* rate_limiter.acquire returns (lines 272, 280, 290): the search is started
AcquireReturn ==
    /\ run.pc \in {"acquire_latest", "acquire_knowledge", "acquire_recent"}
    /\ LET amount == AcquireAmount(run.pc)
           next == CASE run.pc = "acquire_latest" -> "search_latest"
                     [] run.pc = "acquire_knowledge" -> "search_knowledge"
                     [] OTHER -> "search_recent"
       IN ResBecomes(World([Logged(run, Event("acquire", "", amount)) EXCEPT !.pc = next], disk))
    /\ UNCHANGED runs

\* the search calls the run has made
SearchCalls(r) ==
    Len(SelectSeq(r.log, LAMBDA e : e.op \in {"search_latest", "search_knowledge"}))

\* the awaited search expression yields the response's as_dicts
\* (lines 273-278, 281-286, 291-296)
SearchReturn ==
    /\ run.pc \in {"search_latest", "search_knowledge", "search_recent"}
    /\ \E resp \in Responses(SearchCalls(run) + 1) :
       LET items == IF Truthy(resp) THEN resp.items ELSE <<>>
       IN CASE run.pc = "search_latest" ->
                ResBecomes(World(
                    [Logged(run, Event("search_latest", run.query, 6)) EXCEPT
                        !.hist_hot_response = resp,
                        !.got.latest = items,
                        !.pc = "acquire_knowledge"], disk))
            [] run.pc = "search_knowledge" ->
                LET r == Logged(run, Event("search_knowledge", run.query, 10))
                    w == World(
                    [r EXCEPT
                        !.got.hist = items,
                        \* line 287
                        !.hot_articles = IF Truthy(resp) THEN r.hist_hot_response
                                         ELSE Resp(FALSE, <<>>),
                        \* line 288
                        !.historical_articles = IF Truthy(resp) THEN resp.items ELSE <<>>,
                        !.hist_hot_response = Resp(FALSE, <<>>)], disk)
                IN \E w2 \in {NextRecent(w), NextRecent(Interrupted(w))} : ResBecomes(w2)
            [] OTHER ->
                LET r == Logged(run, Event("search_latest", run.query, 5))
                IN IF r.hot_articles.absent
                   THEN ResBecomes(World(Unwound([r EXCEPT !.pc = "extend"], "failed"), disk))  \* None.extend
                   ELSE LET w == World(
                        [r EXCEPT
                            !.got.recent = r.got.recent \o items,
                            \* line 297
                            !.hot_articles.items = r.hot_articles.items \o items], disk)
                        IN \E w2 \in {NextRecent(w), NextRecent(Interrupted(w))} :
                              ResBecomes(w2)
    /\ UNCHANGED runs

\* a search call that raises being made once more before the run gives up
CallRaises_mut_retry ==
    /\ run.pc \in Awaiting \ {"filter", "acquire_latest", "acquire_knowledge", "acquire_recent"}
    /\ LET op == CASE run.pc = "check_query" -> "do_check_query"
                   [] run.pc = "produce_queries" -> "produce_queries"
                   [] run.pc = "search_knowledge" -> "search_knowledge"
                   [] OTHER -> "search_latest"
           again == /\ op \in {"search_latest", "search_knowledge"}
                    /\ \A k \in 1..Len(run.log) :
                          ~(run.log[k].op \in {"search_latest", "search_knowledge"}
                                /\ run.log[k].n = 0)
       IN IF again
          THEN ResBecomes(World(Logged(run, Event(op, run.query, 0)), disk))
          ELSE ResBecomes(World(Unwound(Logged(run, Event(op, run.query, 0)), "failed"), disk))
    /\ UNCHANGED runs
\* an awaited model call or search call raises: nothing in the method catches it
CallRaises ==
    /\ run.pc \in Awaiting \ {"filter", "acquire_latest", "acquire_knowledge", "acquire_recent"}
    /\ LET op == CASE run.pc = "check_query" -> "do_check_query"
                   [] run.pc = "produce_queries" -> "produce_queries"
                   [] run.pc = "search_knowledge" -> "search_knowledge"
                   [] OTHER -> "search_latest"
       IN ResBecomes(World(Unwound(Logged(run, Event(op, run.query, 0)), "failed"), disk))
    /\ UNCHANGED runs

\* lines 309-313 keeping every article
Keeps_mut_all(verdict) == verdict \in {"true", "false", "raise"}
\* lines 309-313 with the article of a failed judgment left out
Keeps_mut_drop(verdict) == verdict = "true"
\* lines 309-313: the article is kept when check_summary returns True or raises
Keeps(verdict) == verdict \in {"true", "raise"}

\* lines 308-313 without the try: an exception of check_summary leaves the method
JudgeReturn_mut_raise(verdict) ==
    /\ run.pc = "filter"
    /\ LET article == run.report[run.i]
           r == Logged(run, Event("check_summary", verdict, article))
           kept == IF verdict = "true"
                   THEN Append(r.relevant_articles, article)
                   ELSE r.relevant_articles
       IN IF verdict = "raise"
          THEN ResBecomes(World(Unwound(r, "failed"), disk))
          ELSE IF run.i < Len(run.report)
          THEN ResBecomes(World([r EXCEPT !.relevant_articles = kept, !.i = r.i + 1], disk))
          ELSE ResBecomes(World([r EXCEPT !.relevant_articles = kept, !.pc = "done",
                                          !.output = _format_articles(kept)], disk))
    /\ UNCHANGED runs
\* check_summary returns or raises for article report[i] (lines 308-313)
JudgeReturn(verdict) ==
    /\ run.pc = "filter"
    /\ LET article == run.report[run.i]
           r == Logged(run, Event("check_summary", verdict, article))
           kept == IF Keeps(verdict)
                   THEN Append(r.relevant_articles, article)
                   ELSE r.relevant_articles
       IN IF run.i < Len(run.report)
          THEN ResBecomes(World([r EXCEPT !.relevant_articles = kept, !.i = r.i + 1], disk))
          ELSE ResBecomes(World([r EXCEPT !.relevant_articles = kept, !.pc = "done",
                                          !.output = _format_articles(kept)], disk))
    /\ UNCHANGED runs

\* the task running the research call is cancelled while it is suspended
CancelRun ==
    /\ run.pc \in Awaiting
    /\ ResBecomes(World(Unwound(run, "cancelled"), disk))
    /\ UNCHANGED runs

ResNext ==
    \/ \E gap \in Gaps, shift \in Shifts : StartRun(gap, shift)
    \/ \E b \in BOOLEAN : CheckQueryReturn(b)
    \/ \E plan \in Plans : ProduceQueriesReturn(plan)
    \/ AcquireReturn
    \/ SearchReturn
    \/ CallRaises
    \/ \E v \in {"true", "false", "raise"} : JudgeReturn(v)
    \/ CancelRun


(***************************************************************************)
(* The query planner's parser (produce_queries, lines 186-203).            *)
(***************************************************************************)
\* recent_queries[:20]
MaxRecentQueries == 20
\* lines of a model output: an empty line, two query lines, a line that is
\* the sentinel alone, a line that holds the sentinel among other words
LineKinds == {"", "q1", "q2", "Final answer:", "So. Final answer: q1"}
\* "Final answer:" in line
HasSentinel(line) == line \in {"Final answer:", "So. Final answer: q1"}

Seqs(S, n) == UNION {[1..m -> S] : m \in 0..n}
\* outputs long enough for the slice of line 203 to cut: the sentinel, the
\* historical query, then n lines, the third of them empty
LongOutput(n) ==
    <<"Final answer:", "h">> \o [k \in 1..n |-> IF k = 3 THEN "" ELSE "q1"]
\* split("\n") gives at least one line
ModelOutputs ==
    (Seqs(LineKinds, MaxLines) \ {<<>>}) \cup
    {LongOutput(n) : n \in (MaxRecentQueries - 1)..(MaxRecentQueries + 2)}

NoPlan == [raised |-> FALSE, historical_query |-> "", hot_queries |-> <<"none">>]

\* the position of the first line the loop of line 190 stops at, 0 when the
\* iterator runs out first
RECURSIVE FirstSentinel(_, _)
FirstSentinel(lines, k) ==
    IF k > Len(lines) THEN 0
    ELSE IF HasSentinel(lines[k]) THEN k
    ELSE FirstSentinel(lines, k + 1)

\* lines 186-203 without the handler of lines 194-198: historical_query keeps
\* its first value
produce_queries_mut_no_fallback(lines) ==
    LET s == FirstSentinel(lines, 1)
        found == s # 0 /\ s < Len(lines)
        rest == IF found THEN SubSeq(lines, s + 2, Len(lines)) ELSE <<>>
    IN [raised |-> FALSE,
        historical_query |-> IF found THEN lines[s + 1] ELSE "",
        hot_queries |-> SubSeq(rest, 1, Min(Len(rest), MaxRecentQueries))]
\* lines 186-203 taking the line after the sentinel by its index: IndexError,
\* which nothing catches, when the sentinel line is the last one
produce_queries_mut_index(lines) ==
    LET s == FirstSentinel(lines, 1)
        rest == IF s # 0 THEN SubSeq(lines, s + 2, Len(lines)) ELSE <<>>
    IN [raised |-> s = Len(lines),
        historical_query |-> IF s # 0 /\ s < Len(lines) THEN lines[s + 1]
                             ELSE IF s = 0 THEN question_text ELSE "",
        hot_queries |-> SubSeq(rest, 1, Min(Len(rest), MaxRecentQueries))]
\* produce_queries, from the split of the response on: next(lines) raises
\* StopIteration when no line holds the sentinel or the sentinel line is the
\* last one, and the iterator is then exhausted; the lines left after the
\* historical query are the recent queries, the first 20 of them returned
produce_queries(lines) ==
    LET s == FirstSentinel(lines, 1)
        found == s # 0 /\ s < Len(lines)
        rest == IF found THEN SubSeq(lines, s + 2, Len(lines)) ELSE <<>>
    IN [raised |-> FALSE,
        historical_query |-> IF found THEN lines[s + 1] ELSE question_text,
        hot_queries |-> SubSeq(rest, 1, Min(Len(rest), MaxRecentQueries))]

PlanIdle ==
    /\ response = <<"">>
    /\ planned = NoPlan
PlanInit ==
    /\ response \in ModelOutputs
    /\ planned = NoPlan
\* the model's output arrives and lines 186-203 run
Decompose ==
    /\ planned = NoPlan
    /\ planned' = produce_queries(response)
    /\ UNCHANGED response
    /\ UNCHANGED limVars
    /\ UNCHANGED resVars
    /\ UNCHANGED fcVars
PlanNext == Decompose

(***************************************************************************)
(* Minim._run_forecast_with_checking and Minim._validate_reasoning         *)
(* (src/minim/minim.py, lines 89-168). Texts are sequences of characters.  *)
(***************************************************************************)
\* the values of the type ReasoningError (line 32)
ReasoningErrors == {"NONE", "TIME", "BASE RATE", "OTHER"}
\* characters of the logic checker's answer: a letter and the line break
Chars == {"x", "\n"}
\* the answers the model can give
Reasonings == Seqs(Chars, MaxChars)
\* what forecast_fun returns
Predictions == {"p1", "p2"}
\* the prompt parts the caller passes (lines 174-207)
prompt_head == <<"H">>
prompt_tail == <<"T">>

\* str.find("\n"), from position k on (0-based): the index of the first line
\* break, -1 when there is none
RECURSIVE find(_, _)
find(text, k) ==
    IF k >= Len(text) THEN -1
    ELSE IF text[k + 1] = "\n" THEN k
    ELSE find(text, k + 1)

\* the slice text[i:] of Python: a negative i counts from the end
SliceFrom(text, i) ==
    LET start == IF i < 0 THEN Max(Len(text) + i, 0) ELSE Min(i, Len(text))
    IN SubSeq(text, start + 1, Len(text))

\* lines 128-135 of _validate_reasoning: the index of "final answer:" found
\* at line 131 is overwritten at line 132 by the index of the first line break
ReasoningCheck(reasoningerror, reasoning) ==
    IF reasoningerror = "NONE"
    THEN [error_type |-> reasoningerror, error_explanation |-> <<>>]
    ELSE [error_type |-> reasoningerror,
          error_explanation |-> SliceFrom(reasoning, find(reasoning, 0))]

\* "\n".join(parts)
RECURSIVE Join(_)
Join(parts) ==
    IF parts = <<>> THEN <<>>
    ELSE IF Len(parts) = 1 THEN parts[1]
    ELSE parts[1] \o <<"\n">> \o Join(Tail(parts))

\* lines 158-162: the sentence around the explanation
prompt_error(reasoningcheck) ==
    <<"A previous attempt had a logical error. This error was:", "\n">>
        \o reasoningcheck.error_explanation
        \o <<"\n", "You should make sure to avoid this error when forecasting.">>

\* line 149 asking for a second forecast whatever the check found
NeedsRetry_mut_always(reasoningcheck) == reasoningcheck.error_type \in ReasoningErrors
\* line 149
NeedsRetry(reasoningcheck) == reasoningcheck.error_type # "NONE"

NoCheck == [error_type |-> "", error_explanation |-> <<>>]
IdleForecast ==
    [pc |-> "idle",
     prediction |-> "",
     reasoning |-> <<>>,
     reasoningcheck |-> NoCheck,
     result |-> "",
     \* history of the call
     prompts |-> <<>>,        \* the prompts forecast_fun was called with, in order
     returns |-> <<>>,        \* what its calls returned, in order
     checks |-> 0,            \* calls of _validate_reasoning
     checked |-> 0]           \* the number of forecasts made when the check was called

ForecastIdle == fc = IdleForecast

FcBecomes(f) ==
    /\ fc' = f
    /\ UNCHANGED limVars
    /\ UNCHANGED resVars
    /\ UNCHANGED planVars

\* _run_forecast_with_checking is called: line 145 up to its await
RunForecast ==
    /\ fc.pc = "idle"
    /\ FcBecomes([fc EXCEPT !.pc = "forecast_1",
                            !.prompts = <<Join(<<prompt_head, prompt_tail>>)>>])

\* forecast_fun returns: line 145, then line 147 up to the await of line 119;
\* or lines 164-168
ForecastReturn(p) ==
    /\ fc.pc \in {"forecast_1", "forecast_2"}
    /\ LET f == [fc EXCEPT !.prediction = p, !.returns = Append(fc.returns, p)]
       IN IF fc.pc = "forecast_1"
          THEN FcBecomes([f EXCEPT !.pc = "invoke", !.checks = fc.checks + 1,
                                   !.checked = Len(f.returns)])
          ELSE FcBecomes([f EXCEPT !.pc = "returned", !.result = p])

\* the model's answer arrives (line 119): structure_output is awaited
InvokeReturn(text) ==
    /\ fc.pc = "invoke"
    /\ FcBecomes([fc EXCEPT !.reasoning = text, !.pc = "structure"])

\* structure_output returns (lines 121-126): lines 128-135, then lines 149-168
\* up to the second await or to the return
StructureReturn(reasoningerror) ==
    /\ fc.pc = "structure"
    /\ LET f == [fc EXCEPT !.reasoningcheck = ReasoningCheck(reasoningerror, fc.reasoning)]
       IN IF NeedsRetry(f.reasoningcheck)
          THEN FcBecomes([f EXCEPT
                    !.pc = "forecast_2",
                    !.prompts = Append(f.prompts,
                        Join(<<prompt_head, prompt_error(f.reasoningcheck), prompt_tail>>))])
          ELSE FcBecomes([f EXCEPT !.pc = "returned", !.result = f.prediction])

\* an awaited call raises: nothing in the two methods catches it
AwaitRaises ==
    /\ fc.pc \in {"forecast_1", "invoke", "structure", "forecast_2"}
    /\ FcBecomes([IdleForecast EXCEPT !.pc = "raised", !.prompts = fc.prompts,
                                      !.returns = fc.returns, !.checks = fc.checks,
                                      !.checked = fc.checked])

ForecastNext ==
    \/ RunForecast
    \/ \E p \in Predictions : ForecastReturn(p)
    \/ \E text \in Reasonings : InvokeReturn(text)
    \/ \E e \in ReasoningErrors : StructureReturn(e)
    \/ AwaitRaises

(***************************************************************************)
(* Specifications.                                                         *)
(***************************************************************************)
\* the research pipeline (the limiter stays as constructed)
Init == ResInit /\ LimInit /\ PlanIdle /\ ForecastIdle
Next == ResNext
Spec == Init /\ [][Next]_vars

\* the rate limiter (no research run is started)
LimiterInit ==
    /\ LimInit
    /\ cfg = [report_dir |-> FALSE, check_query |-> FALSE, check_relevance |-> FALSE]
    /\ disk = NoRecord
    /\ runs = 0
    /\ run = IdleRun
    /\ PlanIdle
    /\ ForecastIdle
LimiterSpec == LimiterInit /\ [][LimNext]_vars

\* the loop keeps running its ready handles and due timers, and time advances
LimiterFairSpec ==
    /\ LimiterSpec
    /\ WF_vars(RunCallSoon \/ RunWakeNext \/ RunWakeup)
    /\ WF_vars(TimerFire)
    /\ WF_vars(Tick)

\* the planner's parser applied to a model output
PlannerInit ==
    /\ PlanInit
    /\ LimInit
    /\ cfg = [report_dir |-> FALSE, check_query |-> TRUE, check_relevance |-> FALSE]
    /\ disk = NoRecord
    /\ runs = 0
    /\ run = IdleRun
    /\ ForecastIdle
PlannerSpec == PlannerInit /\ [][PlanNext]_vars

\* one call of _run_forecast_with_checking
ForecastInit ==
    /\ ForecastIdle
    /\ LimInit
    /\ cfg = [report_dir |-> FALSE, check_query |-> FALSE, check_relevance |-> FALSE]
    /\ disk = NoRecord
    /\ runs = 0
    /\ run = IdleRun
    /\ PlanIdle
ForecastSpec == ForecastInit /\ [][ForecastNext]_vars

\* every awaited call (forecast_fun, the model, structure_output) returns or
\* raises, and the loop then resumes the method
ForecastFairSpec == ForecastSpec /\ WF_vars(ForecastNext)

(***************************************************************************)
(* Properties of the research pipeline (checked under Spec).               *)
(***************************************************************************)
\* the events of a run's log made by the operations in ops
EventsOf(r, ops) == SelectSeq(r.log, LAMBDA e : e.op \in ops)
SearchOps == {"search_latest", "search_knowledge"}
\* the articles handed to check_summary, in order
Judged(r) ==
    LET sel == EventsOf(r, {"check_summary"})
    IN [k \in 1..Len(sel) |-> sel[k].n]
\* the articles whose judgment returned True or raised, in order
KeptByJudgments(r) ==
    LET sel == SelectSeq(r.log, LAMBDA e : e.op = "check_summary" /\ e.q \in {"true", "raise"})
    IN [k \in 1..Len(sel) |-> sel[k].n]
IsPrefix(a, b) == Len(a) <= Len(b) /\ SubSeq(b, 1, Len(a)) = a
\* the file the run read held a record that is not stale for the run's query
FreshRecordAtStart ==
    /\ run.pc # "idle"
    /\ cfg.report_dir
    /\ run.startDisk.kind = "record"
    /\ run.startDisk.query = asknewsquery
    /\ ~run.old

\* C1: in a run whose load returned a record that is not stale, no search is
\* called, the limiter is never acquired, the query planner is not run, the
\* file stays as it was, and the articles judged by the relevance filter are
\* the cached articles in stored order (all of them once the run returns).
C1_CacheHitFrame ==
    FreshRecordAtStart =>
        /\ EventsOf(run, SearchOps \cup {"acquire", "produce_queries", "do_check_query",
                                          "write"}) = <<>>
        /\ disk = run.startDisk
        /\ IsPrefix(Judged(run), run.startDisk.report)
        /\ run.pc \in {"filter", "done"} => run.report = run.startDisk.report
        /\ (run.pc = "done" /\ cfg.check_relevance) => Judged(run) = run.startDisk.report
        /\ (run.pc = "done" /\ ~cfg.check_relevance) =>
                run.output = _format_articles(run.startDisk.report)
\* a run on a fresh record returned after judging both cached articles
C1_Witness ==
    /\ FreshRecordAtStart
    /\ run.pc = "done"
    /\ run.startDisk.age > 0
    /\ Judged(run) = <<1, 2>>

\* C2 (as the spec states it): a run that follows, by less than the freshness
\* threshold, a run that missed the cache and returned after writing a
\* non-empty article list is a cache hit and calls no search.
C2_NextRunHits ==
    (run.afterWrite /\ run.startDisk.age < freshness_threshold_days * UnitsPerDay) =>
        /\ run.hit
        /\ run.startDisk.query = asknewsquery
        /\ EventsOf(run, SearchOps) = <<>>

\* C3 (as the spec states it): with the record {timestamp: now, query: the
\* question text, report: [A1, A2]} in the file, the run calls no search and
\* returns the formatting of the articles its judgments keep.
C3_QuestionTextRecord ==
    (run.pc # "idle" /\ cfg.report_dir
        /\ run.startDisk = Record(0, question_text, <<1, 2>>)) =>
        /\ EventsOf(run, SearchOps) = <<>>
        /\ run.pc = "done" =>
                run.output = _format_articles(IF cfg.check_relevance
                                              THEN KeptByJudgments(run) ELSE <<1, 2>>)
\* C3 (amended): with the record {timestamp: now, query: "v0.1" (the query
\* run_research passes to the searcher), report: [A1, A2]} in the file, the
\* run calls no search and returns the formatting of those of A1, A2 that the
\* run's relevance judgments keep: all of them without the relevance filter,
\* and with it each article judged once, in order, and kept when its judgment
\* returns True or raises.
C3_TagRecord ==
    (run.pc # "idle" /\ cfg.report_dir
        /\ run.startDisk = Record(0, asknewsquery, <<1, 2>>)) =>
        /\ EventsOf(run, SearchOps) = <<>>
        /\ run.pc \notin {"failed"}
        /\ run.pc = "done" =>
            /\ cfg.check_relevance => Judged(run) = <<1, 2>>
            /\ run.output = _format_articles(IF cfg.check_relevance
                                             THEN KeptByJudgments(run) ELSE <<1, 2>>)
\* the run returned with A1 dropped by its judgment and A2 kept by a judgment that raised
C3_Witness ==
    /\ cfg.report_dir
    /\ run.startDisk = Record(0, asknewsquery, <<1, 2>>)
    /\ run.pc = "done"
    /\ cfg.check_relevance
    /\ \E k \in 1..Len(run.log) : run.log[k] = Event("check_summary", "raise", 2)
    /\ run.output = _format_articles(<<2>>)

\* the positions of a run from its start to the return of its last search
BeforeFetchEnd == {"check_query", "produce_queries", "acquire_latest", "search_latest",
                   "acquire_knowledge", "search_knowledge", "acquire_recent",
                   "search_recent"}
\* C4: when a search call raises, or the run is cancelled before every search
\* has returned, the run writes nothing: the file is what it was when the
\* run started.
C4_NoWriteOnIncompleteFetch ==
    ((run.pc = "failed" /\ run.at \in {"search_latest", "search_knowledge", "search_recent"})
        \/ (run.pc = "cancelled" /\ run.at \in BeforeFetchEnd)) =>
        /\ disk = run.startDisk
        /\ EventsOf(run, {"write"}) = <<>>
\* a run was cancelled in the search of a recent query, after articles had arrived
C4_Witness ==
    /\ run.pc = "cancelled"
    /\ run.at = "search_recent"
    /\ cfg.report_dir
    /\ run.got.latest # <<>>
    /\ run.got.hist # <<>>

(***************************************************************************)
(* Properties of the rate limiter (checked under LimiterSpec, the liveness *)
(* property under LimiterFairSpec).                                        *)
(***************************************************************************)
\* the bucket's level now: the stored level less what leaked since _last_check
LeakedLevel == IF level - elapsed > 0 THEN level - elapsed ELSE 0

Precedes(t, u) == amt[t] < amt[u] \/ (amt[t] = amt[u] /\ t < u)
\* C8 (as the spec states it): of two calls suspended at the same time, neither
\* cancelled, the one with the larger amount, or with the same amount and
\* the later arrival, does not return while the other is still suspended.
C8_CompletionOrder ==
    [][\A t, u \in Tasks :
        (/\ pc[t] = "waiting" /\ pc[u] = "waiting"
         /\ fut[t] # "cancelled" /\ fut[u] # "cancelled"
         /\ Precedes(t, u)
         /\ pc'[t] = "waiting") => pc'[u] # "done"]_vars
\* C8 (amended): the waiter a waker evaluation wakes is, of the waiters
\* queued and not cancelled, the one with the smallest amount, and of those
\* with that amount the one with the smallest arrival number; a woken waiter
\* that resumes without capacity queues again under a new arrival number,
\* larger than every number in the queue.
C8_WakeOrder ==
    [][/\ \A t \in Tasks :
            (fut[t] = "pending" /\ fut'[t] = "result") =>
                \E i \in 1..Len(waiters) :
                    /\ waiters[i].task = t
                    /\ \A j \in 1..Len(waiters') :
                        fut'[waiters'[j].task] = "pending" =>
                            \/ waiters[i].amount < waiters'[j].amount
                            \/ /\ waiters[i].amount = waiters'[j].amount
                               /\ waiters[i].count < waiters'[j].count
       /\ \A t \in Tasks :
            (pc[t] = "waiting" /\ fut[t] = "result" /\ fut'[t] = "pending") =>
                /\ \E j \in 1..Len(waiters') :
                        waiters'[j] = [amount |-> amt[t], count |-> next_count, task |-> t]
                /\ \A i \in 1..Len(waiters) : waiters[i].count < next_count]_vars
\* a waiter that arrived first is queued behind a later waiter of the same amount
C8_Witness ==
    \E i, j \in 1..Len(waiters) :
        /\ i < j
        /\ waiters[i].amount = waiters[j].amount
        /\ waiters[i].task > waiters[j].task
        /\ fut[waiters[i].task] = "pending"
        /\ fut[waiters[j].task] = "pending"

\* C9: a step that evaluates the leak lowers the level by the time since the
\* last evaluation, floored at 0 (a returning call then adds its amount), and
\* sets the last check to now; any other step leaves the level alone: no
\* elapsed time is taken off the level twice.
C9_LeakOnce ==
    [][LET floor == IF level - sinceEval > 0 THEN level - sinceEval ELSE 0
       IN \/ level' = level /\ elapsed' >= elapsed /\ sinceEval' >= sinceEval
          \/ /\ elapsed' = 0
             /\ sinceEval' = 0
             /\ \/ level' = floor
                \/ \E t \in Tasks : pc[t] # "done" /\ pc'[t] = "done"
                                        /\ level' = floor + returned'.amount]_vars
\* a waker evaluation has lowered the level part of the way and time has passed since
C9_Witness ==
    /\ returned.task = 1
    /\ pc[2] = "waiting"
    /\ pc[3] = "waiting"
    /\ pc[4] = "idle"
    /\ level > 0
    /\ returned.amount = level + 1
    /\ elapsed > 0

\* C10 (as the spec states it): on a cache miss the combined list is the
\* latest-news response of the first search, then those of the recent
\* queries in order, then the historical-strategy response, an empty or
\* absent response standing for the empty list; the run does not fail on one.
C10_CombinedList ==
    /\ (~run.hit /\ run.pc \in {"filter", "done"}) =>
            run.report = run.got.latest \o run.got.recent \o run.got.hist
    /\ run.pc = "failed" => run.at \notin {"extend", "report"}

\* the searches of lines 273 and 281 among the events of a run
FirstSearches(r) ==
    SelectSeq(r.log, LAMBDA e : (e.op = "search_latest" /\ e.n = 6)
                                    \/ (e.op = "search_knowledge" /\ e.n = 10))
\* C11 (as the spec states it): the first latest-news search and the
\* historical-strategy search of a run are issued with the plan's historical
\* query: the question text when the check is off or the text is judged
\* acceptable, the planner's historical query otherwise.
C11_SearchesUseHistoricalQuery ==
    run.pc \notin {"idle", "failed", "cancelled"} =>
        \A k \in 1..Len(FirstSearches(run)) :
            FirstSearches(run)[k].q = run.historical_query

\* the acquisitions and searches of a run, in order
FetchEvents(r) == EventsOf(r, {"acquire"} \cup SearchOps)
\* the fetch of a plan with the recent queries hot
ExpectedFetch(hot) ==
    <<Event("acquire", "", 1), Event("search_latest", asknewsquery, 6),
      Event("acquire", "", 5), Event("search_knowledge", asknewsquery, 10)>> \o
    [k \in 1..(2 * Len(hot)) |->
        IF k % 2 = 1 THEN Event("acquire", "", 1)
        ELSE Event("search_latest", hot[k \div 2], 5)]
\* C12: in a cache-miss run the acquisitions and searches are acquire(1),
\* latest search, acquire(5), historical search, then acquire(1), latest search
\* for each recent query in order; a search is awaited only after its own
\* acquisition returned, an acquisition only after the search before it
\* returned, and a run that ends its fetch has made 2 + (number of recent
\* queries) searches and as many acquisitions.
C12_AcquireThenSearch ==
    (run.pc \in Awaiting \cup {"done"} /\ ~run.hit) =>
        /\ IsPrefix(FetchEvents(run), ExpectedFetch(run.hot_queries))
        /\ run.pc \in {"search_latest", "search_knowledge", "search_recent"} =>
                /\ Len(FetchEvents(run)) % 2 = 1
                /\ FetchEvents(run)[Len(FetchEvents(run))].op = "acquire"
        /\ run.pc \in {"acquire_latest", "acquire_knowledge", "acquire_recent"} =>
                Len(FetchEvents(run)) % 2 = 0
        /\ run.pc \in {"filter", "done"} =>
                /\ FetchEvents(run) = ExpectedFetch(run.hot_queries)
                /\ SearchCalls(run) = 2 + Len(run.hot_queries)
                /\ Len(EventsOf(run, {"acquire"})) = 2 + Len(run.hot_queries)
C12_Witness ==
    /\ run.pc = "done"
    /\ ~run.hit
    /\ Len(run.hot_queries) = MaxRecent
    /\ Len(FetchEvents(run)) = 4 + 2 * MaxRecent

HasWrite(r) == \E k \in 1..Len(r.log) : r.log[k].op = "write"
StepOf(e) ==
    CASE e.op \in {"do_check_query", "produce_queries"} -> 1
      [] e.op \in {"acquire"} \cup SearchOps -> 2
      [] e.op = "write" -> 3
      [] OTHER -> 4
C14_RecordHoldsEveryFetched ==
    /\ (HasWrite(run) /\ run.pc \in {"filter", "done"}) =>
            /\ disk.kind = "record"
            /\ disk.report = run.got.latest \o run.got.recent \o run.got.hist
    /\ (cfg.check_relevance /\ run.pc = "done") => Judged(run) = run.report

Raised(r) == SelectSeq(r.log, LAMBDA e : e.op = "check_summary" /\ e.q = "raise")
\* C16: when the judgment of an article raises, the article is in the kept
\* list, the run does not fail in its filter, the next article of the report
\* is the one judged next, and the run returns having judged every article.
C16_FailOpen ==
    /\ run.pc = "failed" => run.at # "filter"
    /\ run.pc \in {"filter", "done"} =>
            \A k \in 1..Len(Raised(run)) :
                \E j \in 1..Len(run.relevant_articles) :
                    run.relevant_articles[j] = Raised(run)[k].n
    /\ (run.pc = "filter" /\ Raised(run) # <<>>) =>
            Judged(run) = SubSeq(run.report, 1, run.i - 1)
    /\ (run.pc = "done" /\ Raised(run) # <<>>) => Judged(run) = run.report
C16_Witness ==
    /\ run.pc = "done"
    /\ Raised(run) # <<>>
    /\ \E k \in 1..(Len(run.log) - 1) :
          /\ run.log[k].op = "check_summary"
          /\ run.log[k].q = "raise"
          /\ run.log[k + 1].op = "check_summary"
          /\ run.log[k + 1].q = "false"

\* C17: with relevance checking on, check_summary is called once per article
\* of the report, in the report's order, one call at a time: while the run
\* awaits the judgment of article i, exactly the articles before i have been
\* judged, once each, and no other judgment is outstanding; the run returns
\* when the last one has been judged.
C17_OneJudgmentAtATime ==
    /\ run.pc = "filter" =>
            /\ cfg.check_relevance
            /\ run.i \in 1..Len(run.report)
            /\ Len(EventsOf(run, {"check_summary"})) = run.i - 1
            /\ \A k \in 1..(run.i - 1) : Judged(run)[k] = run.report[k]
    /\ (run.pc = "done" /\ cfg.check_relevance) =>
            /\ Len(EventsOf(run, {"check_summary"})) = Len(run.report)
            /\ \A k \in 1..Len(run.report) : Judged(run)[k] = run.report[k]
C17_Witness ==
    /\ run.pc = "filter"
    /\ run.i = 3
    /\ Len(run.report) > 3
    /\ Len(EventsOf(run, {"check_summary"})) = 2

\* C18 (as the spec states it): for a record that was loaded, the staleness
\* test is true exactly when the record's age, now minus its timestamp, is at
\* least 7 days or the query differs from the record's query; the run is a
\* cache hit exactly when the test is false.
C18_StaleIffOldOrObsolete ==
    (run.pc # "idle" /\ cfg.report_dir /\ run.startDisk.kind = "record") =>
        (run.hit <=> ~(\/ run.startDisk.age >= freshness_threshold_days * UnitsPerDay
                       \/ run.startDisk.query # asknewsquery))

\* the write event of a run that has written
WriteEvent(r) == CHOOSE e \in {r.log[k] : k \in 1..Len(r.log)} : e.op = "write"
C20_EmptyWriteNoOp ==
    (~run.hit /\ run.pc \in {"filter", "done"} /\ run.report = <<>>) =>
        /\ disk = run.startDisk
        /\ ~HasWrite(run)
        /\ \A q \in {asknewsquery, question_text} \cup {RecentQuery(j) : j \in 1..MaxRecent} :
              /\ _write_report(cfg, disk, q, <<>>) = disk
              /\ _write_report(cfg, _write_report(cfg, disk, q, <<>>), q, <<>>) = disk
C20_Witness ==
    /\ ~run.hit
    /\ run.pc = "done"
    /\ run.report = <<>>
    /\ cfg.report_dir
    /\ run.startDisk.kind = "record"
    /\ run.startDisk.age > 0
    /\ disk = run.startDisk
    /\ runs = MaxRuns

\* C21: with no storage directory configured, over any sequence of runs, the
\* load finds nothing and does not fail, every run is a cache miss that goes
\* on to its fetch, nothing is written and no file comes to exist.
C21_NoStorageNoCache ==
    ~cfg.report_dir =>
        /\ disk = NoRecord
        /\ run.startDisk = NoRecord
        /\ ~_check_for_report(cfg, disk).found
        /\ ~_check_for_report(cfg, disk).raised
        /\ ~run.hit
        /\ ~HasWrite(run)
        /\ run.pc = "failed" => run.at # "load"
        /\ run.pc \in {"filter", "done"} => SearchCalls(run) >= 2
C21_Witness ==
    /\ ~cfg.report_dir
    /\ runs = MaxRuns
    /\ run.pc = "done"
    /\ run.report # <<>>
    /\ SearchCalls(run) >= 2

\* C22 (as the spec states it): the load never fails the run: whatever the
\* file holds that is not a valid record (nothing, a payload that is not
\* JSON, JSON of another shape), the load returns absent and the run goes on
\* as a cache miss.
C22_LoadNeverFails ==
    /\ run.pc = "failed" => run.at # "load"
    /\ (run.pc # "idle" /\ run.startDisk.kind # "record") =>
          /\ ~run.hit
          /\ run.pc \in {"filter", "done"} => SearchCalls(run) >= 2

\* C23 (as the spec states it): the save is atomic: whenever a run has got
\* as far as its save, whether the save completed or failed partway, the file
\* holds the complete record it held when the run started or the complete
\* new record, never an empty or partial payload.
C23_AtomicSave ==
    (run.pc # "idle" /\ cfg.report_dir) =>
        \/ disk = run.startDisk
        \/ /\ disk.kind = "record"
           /\ HasWrite(run)

\* the search calls of a run that raised
FailedSearch(e) == e.op \in SearchOps /\ e.n = 0
\* C24: a search call that raises is not made again: it is the last thing the
\* run does. The run fails there, with no search, judgment or write after
\* it and the file left as the run found it.
C24_NoRetry ==
    /\ \A k \in 1..Len(run.log) :
          FailedSearch(run.log[k]) =>
              /\ k = Len(run.log)
              /\ run.pc = "failed"
              /\ run.at \in {"search_latest", "search_knowledge", "search_recent"}
    /\ (run.pc = "failed"
            /\ run.at \in {"search_latest", "search_knowledge", "search_recent"}) =>
          /\ run.log # <<>>
          /\ FailedSearch(run.log[Len(run.log)])
          /\ EventsOf(run, {"write", "check_summary"}) = <<>>
          /\ disk = run.startDisk
          /\ run.output = <<>>
C24_Witness ==
    /\ run.pc = "failed"
    /\ run.at = "search_recent"
    /\ cfg.report_dir
    /\ cfg.check_relevance
    /\ run.got.latest # <<>>
    /\ run.got.hist # <<>>
    /\ FailedSearch(run.log[Len(run.log)])

PlannerEvents(r) == EventsOf(r, {"do_check_query", "produce_queries"})
\* C25: the judge and the planner are called only in a run that missed the
\* cache. With the check off neither is called; produce_queries is called
\* only after do_check_query returned false; and whenever the text counts
\* as acceptable (check off, or do_check_query returned true) the plan is
\* the question text with no recent queries.
C25_PlannerOnlyWhenNeeded ==
    /\ run.hit => PlannerEvents(run) = <<>>
    /\ ~cfg.check_query => PlannerEvents(run) = <<>>
    /\ \A k \in 1..Len(run.log) :
          run.log[k].op = "produce_queries" =>
              /\ cfg.check_query
              /\ k = 2
              /\ run.log[1] = Event("do_check_query", "false", 0)
    /\ \A k \in 1..Len(run.log) : run.log[k].op = "do_check_query" => k = 1
    /\ (~run.hit /\ run.pc \in (Awaiting \cup {"done"}) \ {"check_query", "produce_queries"}
            /\ EventsOf(run, {"produce_queries"}) = <<>>) =>
          /\ run.historical_query = question_text
          /\ run.hot_queries = <<>>
          /\ cfg.check_query => run.log[1] = Event("do_check_query", "true", 0)
C25_Witness ==
    /\ run.pc = "done"
    /\ ~run.hit
    /\ cfg.check_query
    /\ run.log[1] = Event("do_check_query", "true", 0)
    /\ run.historical_query = question_text
    /\ run.hot_queries = <<>>
    /\ SearchCalls(run) = 2

(***************************************************************************)
(* Properties of the planner's parser (checked under PlannerSpec).         *)
(***************************************************************************)
NoSentinel(lines) == \A k \in 1..Len(lines) : ~HasSentinel(lines[k])
\* C26: for a model output none of whose lines holds "Final answer:",
\* produce_queries returns the question text and no recent queries, and does
\* not raise.
C26_SentinelMissingFallback ==
    (planned # NoPlan /\ NoSentinel(response)) =>
        /\ ~planned.raised
        /\ planned.historical_query = question_text
        /\ planned.hot_queries = <<>>
C26_Witness ==
    /\ planned # NoPlan
    /\ NoSentinel(response)
    /\ Len(response) = MaxLines
    /\ response[1] = "q1"
    /\ response[MaxLines] = "q2"

\* the first line holding the sentinel
SentinelAt(lines) == CHOOSE k \in 1..Len(lines) :
    HasSentinel(lines[k]) /\ \A j \in 1..(k - 1) : ~HasSentinel(lines[j])
NonEmpty(lines) == SelectSeq(lines, LAMBDA l : l # "")
\* C27 (as the spec states it): for a model output with a sentinel line
\* followed by at least one line, the historical query is the line right
\* after the first sentinel line and the recent queries are the first (at
\* most 20) non-empty lines after it, in order: empty lines are not returned
\* and do not count toward the 20.
C27_RecentQueriesNonEmpty ==
    (planned # NoPlan /\ ~NoSentinel(response) /\ SentinelAt(response) < Len(response)) =>
        LET s == SentinelAt(response)
            queries == NonEmpty(SubSeq(response, s + 2, Len(response)))
        IN /\ ~planned.raised
           /\ planned.historical_query = response[s + 1]
           /\ planned.hot_queries = SubSeq(queries, 1, Min(Len(queries), MaxRecentQueries))

(***************************************************************************)
(* Further properties of the research pipeline (checked under Spec).       *)
(***************************************************************************)
\* C28: the assertion of _get_file_path never fails, whatever the settings:
\* the load and the save call it only when a storage directory is set (the
\* load of every run then does, and the save of a non-empty report).
C28_PathAssertionHolds ==
    /\ run.at # "path"
    /\ \A k \in 1..Len(run.paths) : run.paths[k] = "ok"
    /\ ~cfg.report_dir => run.paths = <<>>
    /\ (cfg.report_dir /\ run.pc # "idle") => Len(run.paths) >= 1
    /\ Len(run.paths) = 2 => (HasWrite(run) \/ run.at = "write")
C28_Witness ==
    /\ cfg.report_dir
    /\ run.pc = "done"
    /\ run.paths = <<"ok", "ok">>
    /\ HasWrite(run)

\* the run is a cache miss that has got to its first await or further
MissRun == ~run.hit /\ run.pc \in Awaiting \cup {"done"}
\* C29 (as the spec states it): a researcher constructed without an explicit
\* check_query setting runs the acceptability check in every cache-miss run.
C29_CheckOnByDefault ==
    \A given \in Givens :
        ("check_query" \notin DOMAIN given /\ cfg = Constructed(given) /\ MissRun) =>
            \/ run.pc = "check_query"
            \/ EventsOf(run, {"do_check_query"}) # <<>>
\* C29 (amended): the check is off by default: a researcher constructed
\* without an explicit check_query setting never runs the acceptability
\* check, and one constructed with check_query=True runs it first in every
\* cache-miss run.
C29_CheckOffByDefault ==
    \A given \in Givens :
        (cfg = Constructed(given) /\ MissRun) =>
            /\ "check_query" \notin DOMAIN given =>
                  /\ run.pc # "check_query"
                  /\ PlannerEvents(run) = <<>>
            /\ ("check_query" \in DOMAIN given /\ given["check_query"]) =>
                  \/ run.pc = "check_query"
                  \/ run.log[1].op = "do_check_query"
C29_Witness ==
    /\ cfg = Constructed(<<>>)
    /\ ~run.hit
    /\ run.pc = "done"
    /\ SearchCalls(run) = 2
    /\ PlannerEvents(run) = <<>>

(***************************************************************************)
(* Further properties of the rate limiter (checked under LimiterSpec).     *)
(***************************************************************************)
\* a future in the heap is not done
PendingInHeap == \E k \in 1..Len(waiters) : fut[waiters[k].task] = "pending"
\* the timer of line 80 is set (waiting or due)
TimerSet == waker.state \in {"scheduled", "ready"}
\* the loop's ready queue holds a handle of one of the kinds
Queued(kinds) == \E k \in 1..Len(ready) : ready[k].kind \in kinds
\* C30: no wake-up is lost: whenever the heap holds a future that is not
\* done, the waker timer is set or an evaluation of _wake_next is queued on
\* the loop, as its own handle or as the done callback of a satisfied or
\* cancelled waiter, whose run queues it; so the completion of a waiter and
\* the return of an acquire leave the next waiter with an evaluation to come.
C30_NoLostWakeup ==
    PendingInHeap =>
        \/ TimerSet
        \/ Queued({"wake_next", "timer", "call_soon_wake_next"})
\* a waiter has just been satisfied while another waits: no timer, the
\* done callback queued
C30_Witness ==
    /\ PendingInHeap
    /\ ~TimerSet
    /\ Queued({"call_soon_wake_next"})
    /\ \E t \in Tasks : fut[t] = "result"


\* a call of acquire returns in this step
Completes == \E t \in Tasks : pc[t] # "done" /\ pc'[t] = "done"

WakerEvaluation ==
    \/ RunWakeNext
    \/ \E t \in Tasks, a \in Amounts : Call(t, a)
    \/ /\ ready # <<>>
       /\ Head(ready).kind = "wakeup"
       /\ fut[Head(ready).task] # "cancelled"
       /\ RunWakeup
\* the heap holds the entry of a cancelled waiter
CancelledInHeap(heap, f) == \E k \in 1..Len(heap) : f[heap[k].task] = "cancelled"

\* C32 (as the spec states it): the entry of a cancelled waiter is discarded
\* from the heap at the next waker evaluation: no evaluation leaves a
\* cancelled entry in the heap.
C32_DiscardedAtNextEvaluation ==
    [][WakerEvaluation => ~CancelledInHeap(waiters', fut')]_vars
\* C32 (amended): a cancelled waiter never returns from acquire and leaves
\* the level as it was; a waker evaluation discards the cancelled entries it
\* finds at the top of the heap, so the waiter it wakes or sets the timer for
\* is not a cancelled one, and a cancelled entry behind a pending one stays
\* until it reaches the top; whenever a done entry is at the top an
\* evaluation is queued on the loop; and every call that is suspended, not
\* cancelled itself, while another is cancelled returns.
C32_CancelledNeverBlocks ==
    /\ [][\A t \in Tasks :
            /\ fut[t] = "cancelled" => pc'[t] # "done" /\ fut'[t] = "cancelled"
            /\ (pc[t] # "cancelled" /\ pc'[t] = "cancelled") =>
                    level' = level /\ returned' = returned]_vars
    /\ [][WakerEvaluation =>
            /\ \A t \in Tasks : (fut[t] # "result" /\ fut'[t] = "result") => fut[t] = "pending"
            /\ TimerSet' => fut'[waiters'[1].task] = "pending"
            /\ \A k \in 1..Len(waiters') :
                    \/ \E j \in 1..Len(waiters) : waiters[j] = waiters'[k]
                    \/ waiters'[k].count = next_count]_vars
    /\ []((waiters # <<>> /\ fut[waiters[1].task] # "pending") =>
            Queued({"call_soon_wake_next", "wake_next"}))
    /\ \A t, u \in Tasks :
            (fut[t] = "cancelled" /\ pc[u] = "waiting" /\ fut[u] # "cancelled")
                ~> (pc[u] = "done")
\* a cancelled entry is still in the heap, behind a pending one, and the loop
\* has nothing to run: the evaluation after the cancellation left it there
C32_Witness ==
    /\ ready = <<>>
    /\ Len(waiters) >= 2
    /\ fut[waiters[1].task] = "pending"
    /\ CancelledInHeap(waiters, fut)


\* the run r found a stale record, fetched again, received no article from
\* any search, and returned
StaleRefreshEmpty(r) ==
    /\ r.pc = "done"
    /\ ~r.hit
    /\ cfg.report_dir
    /\ r.startDisk.kind = "record"
    /\ r.got = [latest |-> <<>>, recent |-> <<>>, hist |-> <<>>]

\* C33: when the cached record is stale and the refresh fetch returns no
\* article at all, the record stays in the file unchanged, the run's output
\* is built from the empty fetch result, not from the record's articles, and
\* the run that follows is a cache miss again.
C33_StaleStaysStale ==
    /\ [](StaleRefreshEmpty(run) =>
            /\ disk = run.startDisk
            /\ run.report = <<>>
            /\ run.output = _format_articles(<<>>))
    /\ [][(StaleRefreshEmpty(run) /\ runs' = runs + 1) => ~run'.hit]_vars


(***************************************************************************)
(* A further property of the planner's parser (checked under PlannerSpec). *)
(***************************************************************************)
\* the last line holds the sentinel and no line before it does
SentinelLast(lines) ==
    /\ HasSentinel(lines[Len(lines)])
    /\ \A k \in 1..(Len(lines) - 1) : ~HasSentinel(lines[k])

\* C35: for a model output whose only sentinel line is its last line,
\* produce_queries does not raise and returns the question text with no
\* recent queries, as it does for an output without the sentinel.
C35_SentinelLastFallback ==
    (planned # NoPlan /\ SentinelLast(response)) =>
        /\ ~planned.raised
        /\ planned.historical_query = question_text
        /\ planned.hot_queries = <<>>
        /\ \A lines \in ModelOutputs :
                NoSentinel(lines) => produce_queries(lines) = planned
\* an output of query lines that ends with the sentinel line has been parsed
C35_Witness ==
    /\ planned # NoPlan
    /\ SentinelLast(response)
    /\ Len(response) = MaxLines
    /\ response[1] = "q1"
    /\ response[MaxLines - 1] = "q2"


(***************************************************************************)
(* A property of the checked forecast (checked under ForecastFairSpec).    *)
(***************************************************************************)
\* C34: a call of _run_forecast_with_checking ends, after at most two
\* forecasts and one logic check: the first forecast is asked with head and
\* tail, the check is called once, after the first forecast and never after
\* the second; a call that returns after the check reported NONE has made
\* one forecast and returns its prediction; a call that returns after any
\* other report has made exactly two, the second with the error explanation
\* between head and tail, and returns the second prediction. (A call that an
\* awaited call's exception leaves ends too, having made no more calls.)
C34_AtMostTwoForecasts ==
    /\ [](/\ Len(fc.prompts) <= 2
          /\ Len(fc.returns) <= Len(fc.prompts)
          /\ fc.checks <= 1
          /\ fc.checks = 1 => fc.checked = 1
          /\ fc.prompts # <<>> => fc.prompts[1] = prompt_head \o <<"\n">> \o prompt_tail
          /\ fc.pc = "returned" =>
                /\ fc.checks = 1
                /\ fc.reasoningcheck.error_type \in ReasoningErrors
                /\ IF fc.reasoningcheck.error_type = "NONE"
                   THEN /\ Len(fc.prompts) = 1
                        /\ fc.returns = <<fc.result>>
                   ELSE /\ Len(fc.prompts) = 2
                        /\ Len(fc.returns) = 2
                        /\ fc.result = fc.returns[2]
                        /\ \E before, after \in Seqs({"A previous attempt had a logical error. This error was:",
                                                     "You should make sure to avoid this error when forecasting.",
                                                     "\n"}, 2) :
                              fc.prompts[2] = prompt_head \o <<"\n">> \o before
                                                \o fc.reasoningcheck.error_explanation
                                                \o after \o <<"\n">> \o prompt_tail)
    /\ <>(fc.pc \in {"returned", "raised"})
\* the check reported an error, its explanation has a line break in it, and
\* the second forecast, which differs from the first, was returned
C34_Witness ==
    /\ fc.pc = "returned"
    /\ fc.reasoningcheck.error_type = "TIME"
    /\ Len(fc.reasoningcheck.error_explanation) >= 2
    /\ fc.returns = <<"p1", "p2">>
    /\ fc.result = "p2"

====
